---- MODULE Spec2Model ----
(***************************************************************************)
(* Recipe Hub backend: registration/login with JWT bearer tokens, public   *)
(* recipe browsing with ingredient search, per-user favorites and notes.   *)
(* Strings are sequences of one-character strings, so that strip(),        *)
(* lower() and split(",") are computed rather than assumed.                *)
(***************************************************************************)
EXTENDS Integers, Sequences, FiniteSets, TLC

VARIABLES users, nextUserId, recipes, ingredients, favorites, nextFavId,
          notes, nextNoteId, tokens, now, resp, tx,
          categories, recipe_categories,
          _ENGINE, _SessionLocal, engines, sessions

vars == <<users, nextUserId, recipes, ingredients, favorites, nextFavId,
          notes, nextNoteId, tokens, now, resp, tx,
          categories, recipe_categories,
          _ENGINE, _SessionLocal, engines, sessions>>

\* the module globals of deps.py, the engines create_engine has returned and the
\* sessions get_db has handed out
pool == <<_ENGINE, _SessionLocal, engines, sessions>>

\* the categories table and the recipe_categories association table
catalog == <<categories, recipe_categories>>

(***************************************************************************)
(* Bounds of the model.                                                    *)
(***************************************************************************)
MaxQueryLen == 3
MaxIngredients == 2

RecipeIds == {1, 2}
QueryChars == {"a", "B", " ", ","}
StoredNames == {<<"A">>, <<"b">>, <<"b", " ">>}

(***************************************************************************)
(* Python str helpers.                                                     *)
(***************************************************************************)
Range(s) == {s[i] : i \in DOMAIN s}

LowerChar(c) == CASE c = "A" -> "a"
                  [] c = "B" -> "b"
                  [] OTHER -> c

\* str.lower()
Lower(s) == [i \in DOMAIN s |-> LowerChar(s[i])]

IsSpace(c) == c = " "

RECURSIVE LStrip(_)
LStrip(s) == IF s # <<>> /\ IsSpace(Head(s)) THEN LStrip(Tail(s)) ELSE s

RECURSIVE RStrip(_)
RStrip(s) == IF s # <<>> /\ IsSpace(s[Len(s)])
             THEN RStrip(SubSeq(s, 1, Len(s) - 1))
             ELSE s

\* str.strip()
Strip(s) == RStrip(LStrip(s))

\* str.split(","): always at least one token, empty tokens are kept
RECURSIVE SplitFrom(_, _)
SplitFrom(s, cur) ==
    IF s = <<>> THEN <<cur>>
    ELSE IF Head(s) = "," THEN <<cur>> \o SplitFrom(Tail(s), <<>>)
    ELSE SplitFrom(Tail(s), Append(cur, Head(s)))

SplitComma(s) == SplitFrom(s, <<>>)

\* [p for p in seq if p.strip()]
RECURSIVE DropBlank(_)
DropBlank(seq) ==
    IF seq = <<>> THEN <<>>
    ELSE IF Strip(Head(seq)) # <<>> THEN <<Head(seq)>> \o DropBlank(Tail(seq))
    ELSE DropBlank(Tail(seq))

Min(a, b) == IF a <= b THEN a ELSE b

SeqsUpTo(S, n) == UNION {[1..k -> S] : k \in 0..n}

(***************************************************************************)
(* Ingredient search (recipes.py).                                         *)
(***************************************************************************)
_normalize_ingredient(value) == Lower(Strip(value))

\* raw = [p for p in (ingredients.split(",") if ingredients else []) if p.strip()]
RawTokens(q) == DropBlank(IF q # <<>> THEN SplitComma(q) ELSE <<>>)

\* terms = [_normalize_ingredient(p) for p in raw]
SearchTerms(q) == LET raw == RawTokens(q)
                  IN  [i \in DOMAIN raw |-> _normalize_ingredient(raw[i])]

\* func.lower(RecipeIngredient.name): the expression the query compares
StoredKey(name) == Lower(name)

\* mutant: the required count is len(terms), the terms are not deduplicated
MatchedNoDedup(ings, terms) ==
    LET termSet == Range(terms)
        hit == {i \in DOMAIN ings : StoredKey(ings[i].name) \in termSet}
        groups == {ings[i].recipe_id : i \in hit}
        matched(r) == Cardinality({StoredKey(ings[i].name) :
                                     i \in {j \in hit : ings[j].recipe_id = r}})
    IN  {r \in groups : matched(r) = Len(terms)}

\* the grouped subquery: recipe ids whose count of distinct matched keys
\* equals len(set(terms))
MatchedSubquery(ings, terms) ==
    LET termSet == Range(terms)
        hit == {i \in DOMAIN ings : StoredKey(ings[i].name) \in termSet}
        groups == {ings[i].recipe_id : i \in hit}
        matched(r) == Cardinality({StoredKey(ings[i].name) :
                                     i \in {j \in hit : ings[j].recipe_id = r}})
    IN  {r \in groups : matched(r) = Cardinality(termSet)}

\* mutant: the is_public filter is left out of the query
PublicFilterMissing(rs) == rs

\* Recipe.is_public.is_(True)
PublicFilter(rs) == {r \in rs : r.is_public}

\* ORDER BY key DESC: every order the database may return (ties are unordered)
OrderedBy(rs, key) ==
    {s \in [1..Cardinality(rs) -> rs] :
        /\ Range(s) = rs
        /\ \A i, j \in DOMAIN s : i < j => key[s[i]] >= key[s[j]]}

\* mutant: ascending order
OrderedAsc(rs) == OrderedBy(rs, [r \in rs |-> 0 - r.created_at])

\* .order_by(Recipe.created_at.desc())
OrderedDesc(rs) == OrderedBy(rs, [r \in rs |-> r.created_at])

\* .limit(limit).offset(offset)
Page(s, limit, offset) == SubSeq(s, offset + 1, Min(Len(s), offset + limit))

Ids(s) == [i \in DOMAIN s |-> s[i].id]

\* Query(50, ge=1, le=200) and Query(0, ge=0)
ValidPage(limit, offset) == limit >= 1 /\ limit <= 200 /\ offset >= 0

SearchRows(q) ==
    PublicFilter({r \in recipes : r.id \in MatchedSubquery(ingredients, SearchTerms(q))})

NoTx == [w \in {} |-> 0]

\* deps.py as imported: no engine, no session factory (None is 0)
PoolInit == _ENGINE = 0 /\ _SessionLocal = 0 /\ engines = 0 /\ sessions = {}

NoCatalog == categories = {} /\ recipe_categories = {}

\* The last answer sent. seq alternates with every answer, so that two equal
\* answers in a row are two answers.
Response(op, status, user, arg, body) ==
    [op |-> op, status |-> status, user |-> user, arg |-> arg, body |-> body,
     seq |-> 1 - resp.seq]

NoResp == [op |-> "none", status |-> 0, user |-> 0, arg |-> <<>>, body |-> <<>>,
           seq |-> 0]

\* A request that has been received and not yet answered has status 0.
Pending(op, arg) == [op |-> op, status |-> 0, user |-> 0, arg |-> arg, body |-> <<>>,
                     seq |-> 0]

\* this step answers a request
Answered == resp'.seq # resp.seq

Frame == UNCHANGED <<users, nextUserId, recipes, ingredients, favorites, nextFavId,
                     notes, nextNoteId, tokens, now, tx, catalog, pool>>

\* mutant: a blank query is answered with an error instead of an empty list
search_rejects_blank(q, limit, offset) ==
    IF ~ValidPage(limit, offset)
    THEN resp' = Response("search", 422, 0, <<q, limit, offset>>, <<>>)
    ELSE IF RawTokens(q) = <<>>
    THEN resp' = Response("search", 400, 0, <<q, limit, offset>>, <<>>)
    ELSE \E ord \in OrderedDesc(SearchRows(q)) :
           resp' = Response("search", 200, 0, <<q, limit, offset>>,
                            Ids(Page(ord, limit, offset)))

search_recipes_by_ingredients(q, limit, offset) ==
    IF ~ValidPage(limit, offset)
    THEN resp' = Response("search", 422, 0, <<q, limit, offset>>, <<>>)
    ELSE IF RawTokens(q) = <<>>
    THEN resp' = Response("search", 200, 0, <<q, limit, offset>>, <<>>)
    ELSE \E ord \in OrderedDesc(SearchRows(q)) :
           resp' = Response("search", 200, 0, <<q, limit, offset>>,
                            Ids(Page(ord, limit, offset)))

list_recipes(limit, offset) ==
    IF ~ValidPage(limit, offset)
    THEN resp' = Response("list", 422, 0, <<limit, offset>>, <<>>)
    ELSE \E ord \in OrderedDesc(PublicFilter(recipes)) :
           resp' = Response("list", 200, 0, <<limit, offset>>,
                            Ids(Page(ord, limit, offset)))

\* db.get(Recipe, recipe_id)
GetRecipe(id) == {r \in recipes : r.id = id}

\* recipe_id has been validated as an int by the framework; Path(..., ge=1)
get_recipe(recipe_id) ==
    IF recipe_id < 1
    THEN resp' = Response("detail", 422, 0, <<recipe_id>>, <<>>)
    ELSE IF \E r \in GetRecipe(recipe_id) : r.is_public
    THEN resp' = Response("detail", 200, 0, <<recipe_id>>, <<recipe_id>>)
    ELSE resp' = Response("detail", 404, 0, <<recipe_id>>, <<>>)

(***************************************************************************)
(* Routing of GET /recipes/... : the routes of recipes_router in the order *)
(* their decorators run; the first route whose path matches handles the    *)
(* request. A path is the sequence of segments after the /recipes prefix.  *)
(***************************************************************************)
Lit(s) == [kind |-> "lit", text |-> s]
Param(n) == [kind |-> "param", text |-> n]

SearchSeg == <<"s", "e", "a", "r", "c", "h">>

recipes_router ==
    << [handler |-> "list_recipes", path |-> <<>>],
       [handler |-> "get_recipe", path |-> <<Param("recipe_id")>>],
       [handler |-> "search_recipes_by_ingredients", path |-> <<Lit(SearchSeg)>>] >>

\* a {param} matches one non-empty segment, a literal matches itself
RouteMatches(route, path) ==
    /\ Len(route.path) = Len(path)
    /\ \A i \in DOMAIN path :
         IF route.path[i].kind = "lit" THEN path[i] = route.path[i].text
         ELSE path[i] # <<>>

Dispatch(routes, path) ==
    LET hits == {i \in DOMAIN routes : RouteMatches(routes[i], path)}
    IN  IF hits = {} THEN "none"
        ELSE routes[CHOOSE i \in hits : \A j \in hits : i <= j].handler

Digits == <<"0", "1", "2", "3", "4", "5", "6", "7", "8", "9">>

DigitVal(c) == CASE c = "0" -> 0 [] c = "1" -> 1 [] c = "2" -> 2 [] c = "3" -> 3
                 [] c = "4" -> 4 [] c = "5" -> 5 [] c = "6" -> 6 [] c = "7" -> 7
                 [] c = "8" -> 8 [] c = "9" -> 9 [] OTHER -> -1

\* str.isdigit(), and what int() accepts of a path segment
IsInt(seg) == seg # <<>> /\ \A i \in DOMAIN seg : DigitVal(seg[i]) >= 0

\* int(s)
RECURSIVE ParseInt(_)
ParseInt(seg) == IF seg = <<>> THEN 0
                 ELSE 10 * ParseInt(SubSeq(seg, 1, Len(seg) - 1)) + DigitVal(seg[Len(seg)])

HttpGetRecipes(path, q) ==
    LET h == Dispatch(recipes_router, path)
    IN  IF h = "list_recipes"
        THEN \E ord \in OrderedDesc(PublicFilter(recipes)) :
               resp' = Response("http", 200, 0, <<path, q>>, Ids(Page(ord, 50, 0)))
        ELSE IF h = "get_recipe"
        THEN IF ~IsInt(path[1]) \/ ParseInt(path[1]) < 1
             THEN resp' = Response("http", 422, 0, <<path, q>>, <<>>)
             ELSE IF \E r \in GetRecipe(ParseInt(path[1])) : r.is_public
             THEN resp' = Response("http", 200, 0, <<path, q>>, <<ParseInt(path[1])>>)
             ELSE resp' = Response("http", 404, 0, <<path, q>>, <<>>)
        ELSE IF h = "search_recipes_by_ingredients"
        THEN IF RawTokens(q) = <<>>
             THEN resp' = Response("http", 200, 0, <<path, q>>, <<>>)
             ELSE \E ord \in OrderedDesc(SearchRows(q)) :
                    resp' = Response("http", 200, 0, <<path, q>>, Ids(Page(ord, 50, 0)))
        ELSE resp' = Response("http", 404, 0, <<path, q>>, <<>>)

(***************************************************************************)
(* SearchSpec: the unauthenticated recipe operations over every small      *)
(* database, one request in flight.                                        *)
(***************************************************************************)
Queries == SeqsUpTo(QueryChars, MaxQueryLen)
Pages == {<<50, 0>>, <<1, 1>>}
ListPages == {<<50, 0>>, <<1, 0>>, <<1, 1>>, <<0, 0>>, <<201, 0>>}
DetailIds == {0, 1, 2, 9}
HttpPaths == {<<>>, <<SearchSeg>>, <<<<"1">>>>, <<<<"2">>>>, <<<<"9">>>>, <<<<"0">>>>,
              <<<<"1">>, <<"2">>>>}
HttpQueries == {<<>>, <<"a">>, <<"B">>}

SearchRequests ==
    {Pending("search", <<q, p[1], p[2]>>) : q \in Queries, p \in Pages}
    \cup {Pending("list", p) : p \in ListPages}
    \cup {Pending("detail", <<i>>) : i \in DetailIds}
    \cup {Pending("http", <<path, q>>) : path \in HttpPaths, q \in HttpQueries}

SearchCall == /\ resp.op = "search" /\ resp.status = 0
              /\ search_recipes_by_ingredients(resp.arg[1], resp.arg[2], resp.arg[3])
              /\ Frame

ListCall == /\ resp.op = "list" /\ resp.status = 0
            /\ list_recipes(resp.arg[1], resp.arg[2])
            /\ Frame

DetailCall == /\ resp.op = "detail" /\ resp.status = 0
              /\ get_recipe(resp.arg[1])
              /\ Frame

HttpCall == /\ resp.op = "http" /\ resp.status = 0
            /\ HttpGetRecipes(resp.arg[1], resp.arg[2])
            /\ Frame

SearchInit ==
    /\ users = {} /\ nextUserId = 1
    /\ \E pub \in BOOLEAN :
         recipes = {[id |-> 1, is_public |-> pub, created_at |-> 1, author_id |-> 0],
                    [id |-> 2, is_public |-> TRUE, created_at |-> 2, author_id |-> 0]}
    /\ ingredients \in SeqsUpTo([recipe_id : RecipeIds, name : StoredNames], MaxIngredients)
    /\ favorites = {} /\ nextFavId = 1
    /\ notes = {} /\ nextNoteId = 1
    /\ tokens = {} /\ now = 0
    /\ resp \in SearchRequests
    /\ tx = NoTx
    /\ NoCatalog /\ PoolInit

SearchNext == SearchCall \/ ListCall \/ DetailCall \/ HttpCall

SearchSpec == SearchInit /\ [][SearchNext]_vars

(***************************************************************************)
(* TermSpec: one ingredient search, answered in full, for every            *)
(* ingredients string, over two public recipes that each hold any of the   *)
(* ingredients "A" and "b".                                                *)
(***************************************************************************)
TermRows == <<[recipe_id |-> 1, name |-> <<"A">>], [recipe_id |-> 1, name |-> <<"b">>],
              [recipe_id |-> 2, name |-> <<"A">>], [recipe_id |-> 2, name |-> <<"b">>]>>

TermInit ==
    /\ users = {} /\ nextUserId = 1
    /\ recipes = {[id |-> i, is_public |-> TRUE, created_at |-> i, author_id |-> 0] :
                    i \in RecipeIds}
    /\ \E held \in SUBSET Range(TermRows) :
         ingredients = SelectSeq(TermRows, LAMBDA row : row \in held)
    /\ favorites = {} /\ nextFavId = 1
    /\ notes = {} /\ nextNoteId = 1
    /\ tokens = {} /\ now = 0
    /\ resp \in {Pending("search", <<q, 50, 0>>) : q \in Queries}
    /\ tx = NoTx
    /\ NoCatalog /\ PoolInit

TermSpec == TermInit /\ [][SearchCall]_vars

(***************************************************************************)
(* ListSpec: GET /recipes over every table of three recipes, each public   *)
(* or private, with creation times that may coincide.                      *)
(***************************************************************************)
ListRecipeIds == {1, 2, 3}
ListTimes == {1, 2, 3}
ListLimits == {1, 2, 200}
ListOffsets == {0, 1, 2, 3}

ListRequests ==
    {Pending("list", <<l, o>>) : l \in ListLimits, o \in ListOffsets}
    \cup {Pending("list", p) : p \in {<<0, 0>>, <<201, 0>>, <<1, -1>>}}

ListInit ==
    /\ users = {} /\ nextUserId = 1
    /\ \E pub \in [ListRecipeIds -> BOOLEAN], at \in [ListRecipeIds -> ListTimes] :
         recipes = {[id |-> i, is_public |-> pub[i], created_at |-> at[i],
                     author_id |-> 0] : i \in ListRecipeIds}
    /\ ingredients = <<>>
    /\ favorites = {} /\ nextFavId = 1
    /\ notes = {} /\ nextNoteId = 1
    /\ tokens = {} /\ now = 0
    /\ resp \in ListRequests
    /\ tx = NoTx
    /\ NoCatalog /\ PoolInit

ListSpec == ListInit /\ [][ListCall]_vars

(***************************************************************************)
(* Credentials and tokens (auth.py).                                       *)
(***************************************************************************)
ACCESS_TOKEN_EXPIRE_MINUTES == 60
MinPasswordLen == 6

JWT_SECRET == "CHANGE_ME_DEV_ONLY"
OtherSecret == "attacker"

\* str(n)
RECURSIVE IntToStr(_)
IntToStr(n) == IF n < 10 THEN <<Digits[n + 1]>>
               ELSE IntToStr(n \div 10) \o <<Digits[(n % 10) + 1]>>

\* pwd_context.hash / pwd_context.verify
get_password_hash(password) == <<"bcrypt", password>>
verify_password(plain, hashed) == hashed = <<"bcrypt", plain>>

\* the HS256 signature of a payload under a secret
Sign(secret, sub, exp) == <<secret, sub, exp>>

create_access_token(subject) ==
    LET expire == now + ACCESS_TOKEN_EXPIRE_MINUTES
    IN  [sub |-> subject, exp |-> expire, sig |-> Sign(JWT_SECRET, subject, expire)]

\* mutant: expiry is not verified
jwt_decode_ignores_exp(token) == token.sig = Sign(JWT_SECRET, token.sub, token.exp)

\* jwt.decode(token, JWT_SECRET, algorithms=[JWT_ALGORITHM]) succeeds:
\* the signature verifies and exp is not in the past
jwt_decode_ok(token) ==
    /\ token.sig = Sign(JWT_SECRET, token.sub, token.exp)
    /\ ~(token.exp < now)

\* db.get(User, id)
GetUser(id) == {u \in users : u.id = id}

UserByEmail(email) == {u \in users : u.email = email}

\* the user lookup of get_current_user: by id when the subject is numeric,
\* then by email
ResolveSubject(subject) ==
    LET byId == IF IsInt(subject) THEN GetUser(ParseInt(subject)) ELSE {}
    IN  IF byId # {} THEN byId ELSE UserByEmail(subject)

\* mutant: an inactive user passes the guard
guard_ignores_is_active(token) ==
    IF ~jwt_decode_ok(token) THEN 0
    ELSE IF ResolveSubject(token.sub) = {} THEN 0
    ELSE (CHOOSE u \in ResolveSubject(token.sub) : TRUE).id

\* get_current_user: the id of the authenticated user, 0 for 401
get_current_user(token) ==
    IF ~jwt_decode_ok(token) THEN 0
    ELSE IF \E u \in ResolveSubject(token.sub) : u.is_active
    THEN (CHOOSE u \in ResolveSubject(token.sub) : TRUE).id
    ELSE 0

\* the existence pre-check of register_user: User.email == payload.email
RegisterPreCheck(email) == UserByEmail(email) # {}

\* the email column value register_user stores
StoredEmail(email) == Lower(email)

\* mutant: the email column has no unique constraint
EmailUniqueMissing(us, email) == FALSE

\* unique=True on users.email: the INSERT is rejected
EmailUniqueViolated(us, email) == \E u \in us : u.email = email

NewUser(id, email, password) ==
    [id |-> id, email |-> StoredEmail(email),
     hashed_password |-> get_password_hash(password), is_active |-> TRUE]

AuthFrame == UNCHANGED <<recipes, ingredients, favorites, nextFavId, notes,
                         nextNoteId, tx, catalog, pool>>

\* POST /auth/register; an IntegrityError at flush leaves the handler as an
\* unhandled exception: get_db rolls back and the answer is 500
register_user(email, password) ==
    IF Len(password) < MinPasswordLen
    THEN /\ resp' = Response("register", 422, 0, <<email>>, <<>>)
         /\ UNCHANGED <<users, nextUserId>>
    ELSE IF RegisterPreCheck(email)
    THEN /\ resp' = Response("register", 400, 0, <<email>>, <<>>)
         /\ UNCHANGED <<users, nextUserId>>
    ELSE IF EmailUniqueViolated(users, StoredEmail(email))
    THEN /\ resp' = Response("register", 500, 0, <<email>>, <<>>)
         /\ UNCHANGED <<users, nextUserId>>
    ELSE /\ users' = users \cup {NewUser(nextUserId, email, password)}
         /\ nextUserId' = nextUserId + 1
         /\ resp' = Response("register", 201, nextUserId, <<email>>,
                             <<StoredEmail(email)>>)

\* mutant: login does not look at is_active
login_ignores_is_active(username, password) ==
    LET email == Lower(Strip(username))
        found == UserByEmail(email)
    IN  IF ~\E u \in found : verify_password(password, u.hashed_password)
        THEN /\ resp' = Response("login", 400, 0, <<username>>, <<>>)
             /\ UNCHANGED tokens
        ELSE LET user == CHOOSE u \in found : TRUE
                 token == create_access_token(IntToStr(user.id))
             IN  /\ resp' = Response("login", 200, user.id, <<username>>, <<token>>)
                 /\ tokens' = tokens \cup {[tok |-> token, owner |-> user.id]}

\* POST /auth/login
login_for_access_token(username, password) ==
    LET email == Lower(Strip(username))
        found == UserByEmail(email)
    IN  IF ~\E u \in found : verify_password(password, u.hashed_password)
        THEN /\ resp' = Response("login", 400, 0, <<username>>, <<>>)
             /\ UNCHANGED tokens
        ELSE IF ~\E u \in found : u.is_active
        THEN /\ resp' = Response("login", 401, 0, <<username>>, <<>>)
             /\ UNCHANGED tokens
        ELSE LET user == CHOOSE u \in found : TRUE
                 token == create_access_token(IntToStr(user.id))
             IN  /\ resp' = Response("login", 200, user.id, <<username>>, <<token>>)
                 /\ tokens' = tokens \cup {[tok |-> token, owner |-> user.id]}

\* GET /auth/me
read_current_user(token) ==
    LET uid == get_current_user(token)
    IN  IF uid = 0
        THEN resp' = Response("me", 401, 0, <<token>>, <<>>)
        ELSE resp' = Response("me", 200, uid, <<token>>,
                              <<(CHOOSE u \in GetUser(uid) : TRUE).email>>)

(***************************************************************************)
(* AuthSpec: registration, login and the guard, with a clock and an        *)
(* administrator who deactivates accounts in the users table.              *)
(***************************************************************************)
MaxTime == 90
TickStep == 30
MaxTokens == 2

Pw1 == <<"s", "e", "c", "r", "e", "t">>
Pw2 == <<"h", "u", "n", "t", "e", "r">>
PwShort == <<"a", "b", "c">>

\* validated EmailStr values: the local part keeps its case (the domain,
\* always lowercase, is left out)
EmailInputs == {<<"a">>, <<"A">>, <<"b">>}
Usernames == {<<"a">>, <<"A", " ">>, <<"b">>}

SeedRecipes == {[id |-> 1, is_public |-> TRUE, created_at |-> 0, author_id |-> 0],
                [id |-> 2, is_public |-> FALSE, created_at |-> 0, author_id |-> 0]}

\* the tokens clients hold, each remembered with the user whose login issued it
Issued == {h.tok : h \in tokens}

\* tokens signed by someone who does not know JWT_SECRET
Forged(held) == {[t EXCEPT !.sig = Sign(OtherSecret, t.sub, t.exp)] : t \in held}

\* what a client can present: a token it was given, or one of those with the
\* subject or the expiry rewritten, or re-signed with another secret
Presentable(held) ==
    held
    \cup {[t EXCEPT !.sub = IntToStr((ParseInt(t.sub) % 2) + 1)] : t \in held}
    \cup {[t EXCEPT !.exp = t.exp + ACCESS_TOKEN_EXPIRE_MINUTES] : t \in held}
    \cup Forged(held)

Register == \E e \in EmailInputs, p \in {Pw1, PwShort} :
              /\ register_user(e, p)
              /\ UNCHANGED <<tokens, now>>
              /\ AuthFrame

Login == \E n \in Usernames, p \in {Pw1, Pw2} :
           /\ login_for_access_token(n, p)
           /\ Cardinality(tokens') <= MaxTokens
           /\ UNCHANGED <<users, nextUserId, now>>
           /\ AuthFrame

Me == \E t \in Presentable(Issued) :
        /\ read_current_user(t)
        /\ UNCHANGED <<users, nextUserId, tokens, now>>
        /\ AuthFrame

Tick == /\ now + TickStep <= MaxTime
        /\ now' = now + TickStep
        /\ UNCHANGED <<users, nextUserId, tokens, resp>>
        /\ AuthFrame

\* UPDATE users SET is_active = false
DeactivateUser == \E u \in users :
                    /\ u.is_active
                    /\ users' = (users \ {u}) \cup {[u EXCEPT !.is_active = FALSE]}
                    /\ UNCHANGED <<nextUserId, tokens, now, resp>>
                    /\ AuthFrame

AuthInit ==
    /\ users = {} /\ nextUserId = 1
    /\ recipes = SeedRecipes
    /\ ingredients = <<>>
    /\ favorites = {} /\ nextFavId = 1
    /\ notes = {} /\ nextNoteId = 1
    /\ tokens = {} /\ now = 0
    /\ resp = NoResp
    /\ tx = NoTx
    /\ NoCatalog /\ PoolInit

AuthNext == Register \/ Login \/ Me \/ Tick \/ DeactivateUser

AuthSpec == AuthInit /\ [][AuthNext]_vars

(***************************************************************************)
(* Favorites and notes (recipes.py), each behind the guard.                *)
(***************************************************************************)
\* mutant: the favorite is looked up by recipe only, whoever owns it
FavoriteOfAnyone(uid, rid) == {f \in favorites : f.recipe_id = rid}

\* select(Favorite).where(Favorite.user_id == user.id, Favorite.recipe_id == recipe_id)
FavoriteOf(uid, rid) == {f \in favorites : f.user_id = uid /\ f.recipe_id = rid}

\* mutant: the favorites table has no unique constraint
FavUniqueMissing(fs, uid, rid) == FALSE

\* UniqueConstraint("user_id", "recipe_id") on favorites: the INSERT is rejected
FavUniqueViolated(fs, uid, rid) == \E f \in fs : f.user_id = uid /\ f.recipe_id = rid

NewFavorite(id, uid, rid) ==
    [id |-> id, user_id |-> uid, recipe_id |-> rid, created_at |-> now]

\* GET /favorites
list_my_favorites(token) ==
    LET uid == get_current_user(token)
        mine == {f \in favorites : f.user_id = uid /\ GetRecipe(f.recipe_id) # {}}
    IN  /\ IF uid = 0
           THEN resp' = Response("list_favorites", 401, 0, <<>>, <<>>)
           ELSE \E ord \in OrderedBy(mine, [f \in mine |-> f.created_at]) :
                  resp' = Response("list_favorites", 200, uid, <<>>,
                                   [i \in DOMAIN ord |-> ord[i].recipe_id])
        /\ UNCHANGED <<favorites, nextFavId>>

\* POST /favorites
add_favorite(token, recipe_id) ==
    LET uid == get_current_user(token)
    IN  IF uid = 0
        THEN /\ resp' = Response("add_favorite", 401, 0, <<recipe_id>>, <<>>)
             /\ UNCHANGED <<favorites, nextFavId>>
        ELSE IF GetRecipe(recipe_id) = {}
        THEN /\ resp' = Response("add_favorite", 404, uid, <<recipe_id>>, <<>>)
             /\ UNCHANGED <<favorites, nextFavId>>
        ELSE IF FavoriteOf(uid, recipe_id) # {}
        THEN /\ resp' = Response("add_favorite", 409, uid, <<recipe_id>>, <<>>)
             /\ UNCHANGED <<favorites, nextFavId>>
        ELSE IF FavUniqueViolated(favorites, uid, recipe_id)
        THEN /\ resp' = Response("add_favorite", 500, uid, <<recipe_id>>, <<>>)
             /\ UNCHANGED <<favorites, nextFavId>>
        ELSE /\ favorites' = favorites \cup {NewFavorite(nextFavId, uid, recipe_id)}
             /\ nextFavId' = nextFavId + 1
             /\ resp' = Response("add_favorite", 201, uid, <<recipe_id>>, <<nextFavId>>)

\* mutant: removing a favorite that does not exist succeeds
remove_favorite_idempotent(token, recipe_id) ==
    LET uid == get_current_user(token)
    IN  /\ IF uid = 0
           THEN /\ resp' = Response("remove_favorite", 401, 0, <<recipe_id>>, <<>>)
                /\ UNCHANGED favorites
           ELSE IF recipe_id < 1
           THEN /\ resp' = Response("remove_favorite", 422, uid, <<recipe_id>>, <<>>)
                /\ UNCHANGED favorites
           ELSE /\ favorites' = favorites \ FavoriteOf(uid, recipe_id)
                /\ resp' = Response("remove_favorite", 204, uid, <<recipe_id>>, <<>>)
        /\ UNCHANGED nextFavId

\* DELETE /favorites/{recipe_id}
remove_favorite(token, recipe_id) ==
    LET uid == get_current_user(token)
    IN  /\ IF uid = 0
           THEN /\ resp' = Response("remove_favorite", 401, 0, <<recipe_id>>, <<>>)
                /\ UNCHANGED favorites
           ELSE IF recipe_id < 1
           THEN /\ resp' = Response("remove_favorite", 422, uid, <<recipe_id>>, <<>>)
                /\ UNCHANGED favorites
           ELSE IF FavoriteOf(uid, recipe_id) = {}
           THEN /\ resp' = Response("remove_favorite", 404, uid, <<recipe_id>>, <<>>)
                /\ UNCHANGED favorites
           ELSE /\ favorites' = favorites \ FavoriteOf(uid, recipe_id)
                /\ resp' = Response("remove_favorite", 204, uid, <<recipe_id>>, <<>>)
        /\ UNCHANGED nextFavId

\* db.get(Note, note_id)
GetNote(id) == {n \in notes : n.id = id}

\* mutant: the ownership test is dropped, any existing note is found
NoteOfAnyone(uid, note_id) == GetNote(note_id)

\* note is None or note.user_id != user.id  ->  404
NoteOwnedBy(uid, note_id) == {n \in GetNote(note_id) : n.user_id = uid}

\* GET /notes
list_my_notes(token) ==
    LET uid == get_current_user(token)
        mine == {n \in notes : n.user_id = uid}
    IN  /\ IF uid = 0
           THEN resp' = Response("list_notes", 401, 0, <<>>, <<>>)
           ELSE \E ord \in OrderedBy(mine, [n \in mine |-> n.updated_at]) :
                  resp' = Response("list_notes", 200, uid, <<>>, Ids(ord))
        /\ UNCHANGED <<notes, nextNoteId>>

\* POST /notes
create_note(token, recipe_id, content) ==
    LET uid == get_current_user(token)
    IN  IF uid = 0
        THEN /\ resp' = Response("create_note", 401, 0, <<recipe_id, content>>, <<>>)
             /\ UNCHANGED <<notes, nextNoteId>>
        ELSE IF content = ""
        THEN /\ resp' = Response("create_note", 422, uid, <<recipe_id, content>>, <<>>)
             /\ UNCHANGED <<notes, nextNoteId>>
        ELSE IF GetRecipe(recipe_id) = {}
        THEN /\ resp' = Response("create_note", 404, uid, <<recipe_id, content>>, <<>>)
             /\ UNCHANGED <<notes, nextNoteId>>
        ELSE /\ notes' = notes \cup {[id |-> nextNoteId, user_id |-> uid,
                                      recipe_id |-> recipe_id, content |-> content,
                                      updated_at |-> now]}
             /\ nextNoteId' = nextNoteId + 1
             /\ resp' = Response("create_note", 201, uid, <<recipe_id, content>>,
                                 <<nextNoteId>>)

\* GET /notes/{note_id}
get_note(token, note_id) ==
    LET uid == get_current_user(token)
    IN  /\ IF uid = 0
           THEN resp' = Response("get_note", 401, 0, <<note_id>>, <<>>)
           ELSE IF note_id < 1
           THEN resp' = Response("get_note", 422, uid, <<note_id>>, <<>>)
           ELSE IF NoteOwnedBy(uid, note_id) = {}
           THEN resp' = Response("get_note", 404, uid, <<note_id>>, <<>>)
           ELSE resp' = Response("get_note", 200, uid, <<note_id>>,
                                 <<(CHOOSE n \in NoteOwnedBy(uid, note_id) : TRUE).content>>)
        /\ UNCHANGED <<notes, nextNoteId>>

\* PUT /notes/{note_id}
update_note(token, note_id, content) ==
    LET uid == get_current_user(token)
    IN  /\ IF uid = 0
           THEN /\ resp' = Response("update_note", 401, 0, <<note_id, content>>, <<>>)
                /\ UNCHANGED notes
           ELSE IF content = ""
           THEN /\ resp' = Response("update_note", 422, uid, <<note_id, content>>, <<>>)
                /\ UNCHANGED notes
           ELSE IF NoteOwnedBy(uid, note_id) = {}
           THEN /\ resp' = Response("update_note", 404, uid, <<note_id, content>>, <<>>)
                /\ UNCHANGED notes
           ELSE LET n == CHOOSE x \in NoteOwnedBy(uid, note_id) : TRUE
                IN  /\ notes' = (notes \ {n}) \cup
                          {[n EXCEPT !.content = content,
                                     !.updated_at = IF content = n.content
                                                    THEN n.updated_at ELSE now]}
                    /\ resp' = Response("update_note", 200, uid, <<note_id, content>>,
                                        <<content>>)
        /\ UNCHANGED nextNoteId

\* DELETE /notes/{note_id}
delete_note(token, note_id) ==
    LET uid == get_current_user(token)
    IN  /\ IF uid = 0
           THEN /\ resp' = Response("delete_note", 401, 0, <<note_id>>, <<>>)
                /\ UNCHANGED notes
           ELSE IF NoteOwnedBy(uid, note_id) = {}
           THEN /\ resp' = Response("delete_note", 404, uid, <<note_id>>, <<>>)
                /\ UNCHANGED notes
           ELSE /\ notes' = notes \ NoteOwnedBy(uid, note_id)
                /\ resp' = Response("delete_note", 204, uid, <<note_id>>, <<>>)
        /\ UNCHANGED nextNoteId

(***************************************************************************)
(* Spec: the guarded favorites operations, and NoteSpec: the guarded notes  *)
(* operations, one request at a time, for two registered users who have    *)
(* logged in at time 0.                                                    *)
(***************************************************************************)
MaxFavId == 2
MaxNoteId == 2

RecipeInputs == {1, 2, 3}
NoteRecipeInputs == {1, 3}
NoteInputs == 1..(MaxNoteId + 1)
Contents == {"x", "y"}

SeedUsers == {NewUser(1, <<"a">>, Pw1), NewUser(2, <<"b">>, Pw1)}

\* the tokens the two logins at time 0 returned
SeedTokens == {[tok |-> [sub |-> IntToStr(u.id), exp |-> ACCESS_TOKEN_EXPIRE_MINUTES,
                         sig |-> Sign(JWT_SECRET, IntToStr(u.id),
                                      ACCESS_TOKEN_EXPIRE_MINUTES)],
                owner |-> u.id] : u \in SeedUsers}

\* the bearer tokens of the requests: the issued ones and a forged one
Bearer == Issued \cup Forged({CHOOSE t \in Issued : TRUE})

FavFrame == UNCHANGED <<users, nextUserId, recipes, ingredients, notes, nextNoteId,
                        tokens, now, tx, catalog, pool>>
NoteFrame == UNCHANGED <<users, nextUserId, recipes, ingredients, favorites,
                         nextFavId, tokens, now, tx, catalog, pool>>

ListFavorites == \E t \in Bearer : list_my_favorites(t) /\ FavFrame

AddFavorite == \E t \in Bearer, r \in RecipeInputs :
                 /\ nextFavId <= MaxFavId
                 /\ add_favorite(t, r)
                 /\ FavFrame

RemoveFavorite == \E t \in Bearer, r \in RecipeInputs \cup {0} :
                    remove_favorite(t, r) /\ FavFrame

ListNotes == \E t \in Bearer : list_my_notes(t) /\ NoteFrame

CreateNote == \E t \in Bearer, r \in NoteRecipeInputs, c \in Contents \cup {""} :
                /\ nextNoteId <= MaxNoteId
                /\ create_note(t, r, c)
                /\ NoteFrame

GetNoteReq == \E t \in Bearer, i \in NoteInputs \cup {0} :
                get_note(t, i) /\ NoteFrame

UpdateNote == \E t \in Bearer, i \in NoteInputs, c \in Contents \cup {""} :
                update_note(t, i, c) /\ NoteFrame

DeleteNote == \E t \in Bearer, i \in NoteInputs :
                delete_note(t, i) /\ NoteFrame

Init ==
    /\ users = SeedUsers /\ nextUserId = 3
    /\ recipes = SeedRecipes
    /\ ingredients = <<>>
    /\ favorites = {} /\ nextFavId = 1
    /\ notes = {} /\ nextNoteId = 1
    /\ tokens = SeedTokens /\ now = 0
    /\ resp = NoResp
    /\ tx = NoTx
    /\ NoCatalog /\ PoolInit

Next == ListFavorites \/ AddFavorite \/ RemoveFavorite \/ DeactivateUser

Spec == Init /\ [][Next]_vars

NoteNext == ListNotes \/ CreateNote \/ GetNoteReq \/ UpdateNote \/ DeleteNote

NoteSpec == Init /\ [][NoteNext]_vars

(***************************************************************************)
(* Deleting rows (models.py). No route deletes a user or a recipe; an      *)
(* administrator does, through the ORM (session.delete) or with a DELETE   *)
(* statement. The relationships are declared cascade="all, delete-orphan"  *)
(* with passive_deletes=True: children present in the deleting session are *)
(* deleted by the ORM, the others are left to the foreign key's ON DELETE  *)
(* rule. Foreign keys are enforced by the database.                        *)
(***************************************************************************)
\* Recipe.ingredients / recipe_ingredients.recipe_id ON DELETE CASCADE
RecipeCascadeIngredients(ings, rids) ==
    SelectSeq(ings, LAMBDA i : i.recipe_id \notin rids)

\* mutant: favorites survive the recipe they point at
RecipeKeepsFavorites(fs, rids) == fs

\* Recipe.favorites / favorites.recipe_id ON DELETE CASCADE
RecipeCascadeFavorites(fs, rids) == {f \in fs : f.recipe_id \notin rids}

\* Recipe.notes / notes.recipe_id ON DELETE CASCADE
RecipeCascadeNotes(ns, rids) == {n \in ns : n.recipe_id \notin rids}

\* recipe_categories.recipe_id ON DELETE CASCADE
RecipeCascadeLinks(links, rids) == {l \in links : l.recipe_id \notin rids}

\* User.favorites / favorites.user_id ON DELETE CASCADE
UserCascadeFavorites(fs, uid) == {f \in fs : f.user_id # uid}

\* User.notes / notes.user_id ON DELETE CASCADE
UserCascadeNotes(ns, uid) == {n \in ns : n.user_id # uid}

AuthoredBy(uid) == {r \in recipes : r.author_id = uid}

\* User.recipes is cascade="all, delete-orphan", passive_deletes=True: the
\* authored recipes the session has loaded in user.recipes are deleted with
\* the user; when the collection is not loaded, none is
UserCascadeRecipes(uid, loaded) ==
    IF loaded THEN {r.id : r \in AuthoredBy(uid)} ELSE {}

\* recipes.author_id ON DELETE SET NULL, for the recipes that are left (null is 0)
AuthorSetNull(rs, uid) ==
    {IF r.author_id = uid THEN [r EXCEPT !.author_id = 0] ELSE r : r \in rs}

\* the rows left when the recipes rids are deleted
DeleteRecipeRows(rids) ==
    /\ recipes' = {r \in recipes : r.id \notin rids}
    /\ ingredients' = RecipeCascadeIngredients(ingredients, rids)
    /\ favorites' = RecipeCascadeFavorites(favorites, rids)
    /\ notes' = RecipeCascadeNotes(notes, rids)
    /\ recipe_categories' = RecipeCascadeLinks(recipe_categories, rids)

AdminFrame == UNCHANGED <<nextUserId, nextFavId, nextNoteId, tokens, now, resp, tx,
                          categories, pool>>

\* a user is deleted; loaded: user.recipes has been read in the deleting session
DeleteUser == \E u \in users, loaded \in BOOLEAN :
    LET gone == UserCascadeRecipes(u.id, loaded)
    IN  /\ users' = users \ {u}
        /\ recipes' = AuthorSetNull({r \in recipes : r.id \notin gone}, u.id)
        /\ ingredients' = RecipeCascadeIngredients(ingredients, gone)
        /\ favorites' = RecipeCascadeFavorites(UserCascadeFavorites(favorites, u.id), gone)
        /\ notes' = RecipeCascadeNotes(UserCascadeNotes(notes, u.id), gone)
        /\ recipe_categories' = RecipeCascadeLinks(recipe_categories, gone)
        /\ AdminFrame

\* a recipe is deleted
DeleteRecipe == \E r \in recipes :
    /\ DeleteRecipeRows({r.id})
    /\ UNCHANGED users
    /\ AdminFrame

(***************************************************************************)
(* GuardSpec: every guarded operation (GET /auth/me, favorites, notes) for *)
(* the two logged-in users, one request at a time, while an administrator  *)
(* deactivates and deletes accounts.                                       *)
(***************************************************************************)
GuardRecipe == CHOOSE r \in SeedRecipes : r.is_public

\* the ids of the one favorite and the one note created under GuardSpec
GuardFavIds == {1}
GuardNoteIds == {1}

GuardAddFavorite == \E t \in Issued :
                      /\ nextFavId \in GuardFavIds
                      /\ add_favorite(t, GuardRecipe.id)
                      /\ FavFrame

GuardRemoveFavorite == \E t \in Issued :
                         remove_favorite(t, GuardRecipe.id) /\ FavFrame

GuardCreateNote == \E t \in Issued :
                     /\ nextNoteId \in GuardNoteIds
                     /\ create_note(t, GuardRecipe.id, "x")
                     /\ NoteFrame

GuardGetNote == \E t \in Issued, i \in GuardNoteIds : get_note(t, i) /\ NoteFrame

GuardUpdateNote == \E t \in Issued, i \in GuardNoteIds :
                     update_note(t, i, "y") /\ NoteFrame

GuardDeleteNote == \E t \in Issued, i \in GuardNoteIds :
                     delete_note(t, i) /\ NoteFrame

GuardMe == \E t \in Issued :
             /\ read_current_user(t)
             /\ UNCHANGED <<users, nextUserId, tokens, now>>
             /\ AuthFrame

GuardNext ==
    \/ GuardMe
    \/ ListFavorites \/ GuardAddFavorite \/ GuardRemoveFavorite
    \/ ListNotes \/ GuardCreateNote \/ GuardGetNote \/ GuardUpdateNote
    \/ GuardDeleteNote
    \/ DeactivateUser \/ DeleteUser

GuardSpec == Init /\ [][GuardNext]_vars

(***************************************************************************)
(* CascadeSpec: users favorite and annotate recipes while an administrator *)
(* deletes users and recipes. Recipe 1 was authored by user 1 and recipe 2 *)
(* by nobody; each has an ingredient and is linked to the one category.    *)
(***************************************************************************)
CascadeRecipes == {[id |-> 1, is_public |-> TRUE, created_at |-> 0, author_id |-> 1],
                   [id |-> 2, is_public |-> FALSE, created_at |-> 0, author_id |-> 0]}

CascadeAddFavorite == \E t \in Issued, r \in {x.id : x \in CascadeRecipes} :
                        /\ nextFavId <= MaxFavId
                        /\ add_favorite(t, r)
                        /\ FavFrame

CascadeCreateNote == \E t \in Issued, r \in {x.id : x \in CascadeRecipes} :
                       /\ nextNoteId <= MaxNoteId
                       /\ create_note(t, r, "x")
                       /\ NoteFrame

CascadeInit ==
    /\ users = SeedUsers /\ nextUserId = 3
    /\ recipes = CascadeRecipes
    /\ ingredients = <<[recipe_id |-> 1, name |-> <<"a">>],
                       [recipe_id |-> 2, name |-> <<"b">>]>>
    /\ categories = {[id |-> 1]}
    /\ recipe_categories = {[recipe_id |-> r.id, category_id |-> 1] : r \in CascadeRecipes}
    /\ favorites = {} /\ nextFavId = 1
    /\ notes = {} /\ nextNoteId = 1
    /\ tokens = SeedTokens /\ now = 0
    /\ resp = NoResp
    /\ tx = NoTx
    /\ PoolInit

CascadeNext == CascadeAddFavorite \/ CascadeCreateNote \/ DeleteUser \/ DeleteRecipe

CascadeSpec == CascadeInit /\ [][CascadeNext]_vars

(***************************************************************************)
(* IsolationSpec: the favorites and the notes operations together, for the *)
(* two logged-in users acting in turn on the same recipe and on each       *)
(* other's note ids.                                                       *)
(***************************************************************************)
IsoNoteIds == 1..MaxNoteId

\* the ids of the favorites created under IsolationSpec: one for each user
IsoFavIds == {1, 2}

IsoListFavorites == \E t \in Issued : list_my_favorites(t) /\ FavFrame

IsoListNotes == \E t \in Issued : list_my_notes(t) /\ NoteFrame

IsoAddFavorite == \E t \in Issued :
                    /\ nextFavId \in IsoFavIds
                    /\ add_favorite(t, GuardRecipe.id)
                    /\ FavFrame

IsoCreateNote == \E t \in Issued :
                   /\ nextNoteId <= MaxNoteId
                   /\ create_note(t, GuardRecipe.id, "x")
                   /\ NoteFrame

IsoGetNote == \E t \in Issued, i \in IsoNoteIds : get_note(t, i) /\ NoteFrame

IsoUpdateNote == \E t \in Issued, i \in IsoNoteIds :
                   update_note(t, i, "y") /\ NoteFrame

IsoDeleteNote == \E t \in Issued, i \in IsoNoteIds :
                   delete_note(t, i) /\ NoteFrame

IsolationNext ==
    \/ IsoListFavorites \/ IsoAddFavorite \/ GuardRemoveFavorite
    \/ IsoListNotes \/ IsoCreateNote \/ IsoGetNote \/ IsoUpdateNote \/ IsoDeleteNote

IsolationSpec == Init /\ [][IsolationNext]_vars

(***************************************************************************)
(* ConcSpec: concurrent register, add_favorite and remove_favorite         *)
(* requests. Each request runs in its own session (deps.get_db): its       *)
(* SELECTs see committed rows, db.flush() sends the INSERT, which the      *)
(* unique constraint rejects when a committed row holds the key and which  *)
(* waits while another open transaction holds an uncommitted row with the  *)
(* key; db.commit() after the handler returns publishes the rows.          *)
(***************************************************************************)
NumWorkers == 2
MaxUserId == 3

Workers == 1..NumWorkers

Idle == [pc |-> "idle", uid |-> 0, arg |-> <<>>, row |-> <<>>]

\* rows other open transactions have inserted and not yet committed
PendingOthers(w, kind) ==
    {tx[v].row[1] : v \in {x \in Workers \ {w} : tx[x].pc = kind}}

ConcFrame == UNCHANGED <<recipes, ingredients, notes, nextNoteId, tokens, now,
                         catalog, pool>>

\* register_user up to the pre-check (auth.py:168-170)
RegBegin(w) == \E e \in {<<"b">>, <<"B">>} :
    /\ tx[w].pc = "idle"
    /\ nextUserId <= MaxUserId
    /\ IF RegisterPreCheck(e)
       THEN /\ resp' = Response("register", 400, 0, <<e>>, <<>>)
            /\ tx' = tx
       ELSE /\ tx' = [tx EXCEPT ![w] = [pc |-> "reg_checked", uid |-> 0,
                                        arg |-> <<e>>, row |-> <<>>]]
            /\ resp' = resp
    /\ UNCHANGED <<users, nextUserId, favorites, nextFavId>>
    /\ ConcFrame

\* db.add(user); db.flush() (auth.py:180-181)
RegFlush(w) ==
    /\ tx[w].pc = "reg_checked"
    /\ LET e == tx[w].arg[1]
       IN  /\ ~EmailUniqueViolated(PendingOthers(w, "reg_flushed"), StoredEmail(e))
           /\ IF EmailUniqueViolated(users, StoredEmail(e))
              THEN /\ resp' = Response("register", 500, 0, <<e>>, <<>>)
                   /\ tx' = [tx EXCEPT ![w] = Idle]
                   /\ UNCHANGED nextUserId
              ELSE /\ tx' = [tx EXCEPT ![w].pc = "reg_flushed",
                                       ![w].row = <<NewUser(nextUserId, e, Pw1)>>]
                   /\ nextUserId' = nextUserId + 1
                   /\ resp' = resp
    /\ UNCHANGED <<users, favorites, nextFavId>>
    /\ ConcFrame

\* the handler returns and get_db commits (deps.py:64-65)
RegCommit(w) ==
    /\ tx[w].pc = "reg_flushed"
    /\ users' = users \cup {tx[w].row[1]}
    /\ resp' = Response("register", 201, tx[w].row[1].id, tx[w].arg,
                        <<tx[w].row[1].email>>)
    /\ tx' = [tx EXCEPT ![w] = Idle]
    /\ UNCHANGED <<nextUserId, favorites, nextFavId>>
    /\ ConcFrame

\* add_favorite up to the pre-check (recipes.py:304-315)
FavBegin(w) == \E t \in Issued, r \in {1, 3} :
    /\ tx[w].pc = "idle"
    /\ nextFavId <= MaxFavId
    /\ LET uid == get_current_user(t)
       IN  IF uid = 0
           THEN resp' = Response("add_favorite", 401, 0, <<r>>, <<>>) /\ tx' = tx
           ELSE IF GetRecipe(r) = {}
           THEN resp' = Response("add_favorite", 404, uid, <<r>>, <<>>) /\ tx' = tx
           ELSE IF FavoriteOf(uid, r) # {}
           THEN resp' = Response("add_favorite", 409, uid, <<r>>, <<>>) /\ tx' = tx
           ELSE /\ tx' = [tx EXCEPT ![w] = [pc |-> "fav_checked", uid |-> uid,
                                            arg |-> <<r>>, row |-> <<>>]]
                /\ resp' = resp
    /\ UNCHANGED <<users, nextUserId, favorites, nextFavId>>
    /\ ConcFrame

\* db.add(fav); db.flush() (recipes.py:317-319)
FavFlush(w) ==
    /\ tx[w].pc = "fav_checked"
    /\ LET uid == tx[w].uid
           r == tx[w].arg[1]
       IN  /\ ~FavUniqueViolated(PendingOthers(w, "fav_flushed"), uid, r)
           /\ IF FavUniqueViolated(favorites, uid, r)
              THEN /\ resp' = Response("add_favorite", 500, uid, <<r>>, <<>>)
                   /\ tx' = [tx EXCEPT ![w] = Idle]
                   /\ UNCHANGED nextFavId
              ELSE /\ tx' = [tx EXCEPT ![w].pc = "fav_flushed",
                                       ![w].row = <<NewFavorite(nextFavId, uid, r)>>]
                   /\ nextFavId' = nextFavId + 1
                   /\ resp' = resp
    /\ UNCHANGED <<users, nextUserId, favorites>>
    /\ ConcFrame

\* the handler returns and get_db commits (deps.py:64-65)
FavCommit(w) ==
    /\ tx[w].pc = "fav_flushed"
    /\ favorites' = favorites \cup {tx[w].row[1]}
    /\ resp' = Response("add_favorite", 201, tx[w].uid, tx[w].arg, <<tx[w].row[1].id>>)
    /\ tx' = [tx EXCEPT ![w] = Idle]
    /\ UNCHANGED <<users, nextUserId, nextFavId>>
    /\ ConcFrame

\* remove_favorite up to db.delete(fav) (recipes.py:339-344)
RemBegin(w) == \E t \in Issued, r \in {1} :
    /\ tx[w].pc = "idle"
    /\ LET uid == get_current_user(t)
       IN  IF uid = 0
           THEN resp' = Response("remove_favorite", 401, 0, <<r>>, <<>>) /\ tx' = tx
           ELSE IF FavoriteOf(uid, r) = {}
           THEN resp' = Response("remove_favorite", 404, uid, <<r>>, <<>>) /\ tx' = tx
           ELSE /\ tx' = [tx EXCEPT ![w] = [pc |-> "rem_selected", uid |-> uid,
                              arg |-> <<r>>,
                              row |-> <<CHOOSE f \in FavoriteOf(uid, r) : TRUE>>]]
                /\ resp' = resp
    /\ UNCHANGED <<users, nextUserId, favorites, nextFavId>>
    /\ ConcFrame

\* get_db commits: the DELETE of the selected row is flushed and published; a
\* row another request has deleted meanwhile matches nothing
RemCommit(w) ==
    /\ tx[w].pc = "rem_selected"
    /\ favorites' = favorites \ {tx[w].row[1]}
    /\ resp' = Response("remove_favorite", 204, tx[w].uid, tx[w].arg, <<>>)
    /\ tx' = [tx EXCEPT ![w] = Idle]
    /\ UNCHANGED <<users, nextUserId, nextFavId>>
    /\ ConcFrame

\* the operation of the request a session belongs to
OpOf(pc) == CASE pc = "reg_flushed" -> "register"
              [] pc = "fav_flushed" -> "add_favorite"
              [] OTHER -> "remove_favorite"

\* mutant: get_db commits on the way out, whether or not an exception passes
AbortCommits(w) ==
    /\ tx[w].pc \in {"reg_flushed", "fav_flushed", "rem_selected"}
    /\ users' = IF tx[w].pc = "reg_flushed" THEN users \cup {tx[w].row[1]} ELSE users
    /\ favorites' = IF tx[w].pc = "fav_flushed" THEN favorites \cup {tx[w].row[1]}
                    ELSE IF tx[w].pc = "rem_selected" THEN favorites \ {tx[w].row[1]}
                    ELSE favorites
    /\ resp' = Response(OpOf(tx[w].pc), 500, tx[w].uid, tx[w].arg, <<>>)
    /\ tx' = [tx EXCEPT ![w] = Idle]
    /\ UNCHANGED <<nextUserId, nextFavId>>
    /\ ConcFrame

\* an exception passes through get_db after the session has changes (the
\* database fails during refresh or commit): except Exception: db.rollback();
\* raise; finally: db.close() (deps.py:66-70). The answer is 500; ids drawn
\* from the sequences are not given back.
Abort(w) ==
    /\ tx[w].pc \in {"reg_flushed", "fav_flushed", "rem_selected"}
    /\ resp' = Response(OpOf(tx[w].pc), 500, tx[w].uid, tx[w].arg, <<>>)
    /\ tx' = [tx EXCEPT ![w] = Idle]
    /\ UNCHANGED <<users, nextUserId, favorites, nextFavId>>
    /\ ConcFrame

ConcInit ==
    /\ users = {u \in SeedUsers : u.id = 1} /\ nextUserId = 2
    /\ recipes = SeedRecipes
    /\ ingredients = <<>>
    /\ favorites = {} /\ nextFavId = 1
    /\ notes = {} /\ nextNoteId = 1
    /\ tokens = {h \in SeedTokens : h.owner = 1} /\ now = 0
    /\ resp = NoResp
    /\ tx = [w \in Workers |-> Idle]
    /\ NoCatalog /\ PoolInit

ConcNext == \E w \in Workers :
    \/ RegBegin(w) \/ RegFlush(w) \/ RegCommit(w)
    \/ FavBegin(w) \/ FavFlush(w) \/ FavCommit(w)
    \/ RemBegin(w) \/ RemCommit(w)
    \/ Abort(w)

ConcSpec == ConcInit /\ [][ConcNext]_vars

(***************************************************************************)
(* EngineSpec: get_db called from request threads (deps.py). get_db is a   *)
(* plain generator, so the framework runs it in a worker thread of its     *)
(* pool, and first calls can overlap. _ensure_engine_and_session takes no  *)
(* lock; a thread can be preempted between any two of its statements.      *)
(* An engine is its number in order of creation, a session factory is the  *)
(* engine it binds, None is 0.                                             *)
(***************************************************************************)
MaxSessions == 3

Thread(pc, eng) == [pc |-> pc, eng |-> eng]

EngineFrame == UNCHANGED <<users, nextUserId, recipes, ingredients, favorites,
                           nextFavId, notes, nextNoteId, tokens, now, resp, catalog>>

\* get_db is entered; if _ENGINE is not None and _SessionLocal is not None: return
EnsureCheck(w) ==
    /\ tx[w].pc = "idle"
    /\ Cardinality(sessions) < MaxSessions
    /\ tx' = [tx EXCEPT ![w] = Thread(IF _ENGINE # 0 /\ _SessionLocal # 0
                                      THEN "session" ELSE "create", 0)]
    /\ UNCHANGED pool
    /\ EngineFrame

\* create_engine(database_url, pool_pre_ping=True) returns a new engine
CreateEngine(w) ==
    /\ tx[w].pc = "create"
    /\ engines' = engines + 1
    /\ tx' = [tx EXCEPT ![w] = Thread("store", engines + 1)]
    /\ UNCHANGED <<_ENGINE, _SessionLocal, sessions>>
    /\ EngineFrame

\* _ENGINE = <the engine just created>
StoreEngine(w) ==
    /\ tx[w].pc = "store"
    /\ _ENGINE' = tx[w].eng
    /\ tx' = [tx EXCEPT ![w] = Thread("factory", tx[w].eng)]
    /\ UNCHANGED <<_SessionLocal, engines, sessions>>
    /\ EngineFrame

\* _SessionLocal = sessionmaker(..., bind=_ENGINE): the global is read again
MakeFactory(w) ==
    /\ tx[w].pc = "factory"
    /\ _SessionLocal' = _ENGINE
    /\ tx' = [tx EXCEPT ![w] = Thread("session", tx[w].eng)]
    /\ UNCHANGED <<_ENGINE, engines, sessions>>
    /\ EngineFrame

\* db = _SessionLocal(); the request runs and the session is committed and closed
OpenSession(w) ==
    /\ tx[w].pc = "session"
    /\ sessions' = sessions \cup {[id |-> Cardinality(sessions) + 1, bind |-> _SessionLocal]}
    /\ tx' = [tx EXCEPT ![w] = Thread("idle", 0)]
    /\ UNCHANGED <<_ENGINE, _SessionLocal, engines>>
    /\ EngineFrame

EngineInit ==
    /\ users = {} /\ nextUserId = 1
    /\ recipes = SeedRecipes
    /\ ingredients = <<>>
    /\ favorites = {} /\ nextFavId = 1
    /\ notes = {} /\ nextNoteId = 1
    /\ tokens = {} /\ now = 0
    /\ resp = NoResp
    /\ tx = [w \in Workers |-> Thread("idle", 0)]
    /\ NoCatalog /\ PoolInit

EngineNext == \E w \in Workers :
    \/ EnsureCheck(w) \/ CreateEngine(w) \/ StoreEngine(w) \/ MakeFactory(w)
    \/ OpenSession(w)

EngineSpec == EngineInit /\ [][EngineNext]_vars

(***************************************************************************)
(* Properties of ingredient search and routing (checked under SearchSpec). *)
(***************************************************************************)
\* the names of a recipe's ingredient rows
NamesOf(rid) == {ingredients[i].name : i \in {j \in DOMAIN ingredients :
                                                ingredients[j].recipe_id = rid}}

\* a search answered in full: first page, wide enough for every recipe
FullSearchAnswer == /\ resp.op = "search" /\ resp.status = 200
                    /\ resp.arg[2] >= Cardinality(recipes) /\ resp.arg[3] = 0

\* the requested terms: non-blank comma-separated tokens, trimmed and lowercased
RequestedTerms(q) == {Lower(Strip(t)) : t \in {x \in Range(SplitComma(q)) : Strip(x) # <<>>}}

\* C2: AND semantics. For a non-empty set T of normalized requested terms the
\* unpaginated result is exactly the set of public recipes whose set of
\* normalized (trimmed, lowercased) ingredient names contains every term of T.
C2_AndSemantics ==
    (FullSearchAnswer /\ RequestedTerms(resp.arg[1]) # {}) =>
        Range(resp.body) =
            {r.id : r \in {x \in recipes :
                /\ x.is_public
                /\ RequestedTerms(resp.arg[1]) \subseteq
                     {Lower(Strip(n)) : n \in NamesOf(x.id)}}}

\* C3: a stored name that differs from the single requested term only by letter
\* case or surrounding whitespace, on either side, counts as a match: the public
\* recipe holding it is returned.
C3_CaseAndTrimInsensitive ==
    (FullSearchAnswer /\ Cardinality(RequestedTerms(resp.arg[1])) = 1) =>
        \A r \in recipes :
            (r.is_public /\ \E n \in NamesOf(r.id) :
                                Lower(Strip(n)) \in RequestedTerms(resp.arg[1]))
            => r.id \in Range(resp.body)

\* C4: GET /recipes/search reaches the ingredient search and answers 200 with a
\* list; the detail route GET /recipes/{recipe_id} never captures it.
C4_SearchRouteReachable ==
    (resp.op = "http" /\ resp.status # 0 /\ resp.arg[1] = <<SearchSeg>>) =>
        /\ resp.status = 200
        /\ Dispatch(recipes_router, resp.arg[1]) = "search_recipes_by_ingredients"

\* an ingredients string whose comma-separated tokens are all empty or blank
BlankQuery(q) == \A i \in DOMAIN q : q[i] \in {" ", ","}

\* C5: for every ingredients string whose comma-separated tokens are all empty
\* or whitespace-only (the empty string included) the search answers 200 with an
\* empty list, never an error.
C5_BlankQueryEmptyList ==
    (resp.op = "search" /\ resp.status # 0 /\ ValidPage(resp.arg[2], resp.arg[3])
        /\ BlankQuery(resp.arg[1]))
    => (resp.status = 200 /\ resp.body = <<>>)

\* C5 witness: a query of blanks and commas has been answered, over a database
\* that holds a public recipe with ingredients.
C5_Witness ==
    /\ resp.op = "search" /\ resp.status = 200
    /\ resp.arg[1] = <<" ", ",", " ">>
    /\ resp.body = <<>>
    /\ \E r \in recipes : r.is_public /\ NamesOf(r.id) # {}

\* C19: the answer depends only on the set of normalized requested terms: a
\* search answered in full returns the recipes that every other ingredients
\* string with the same set of trimmed, lowercased, non-blank terms selects,
\* however often it repeats a term, in whatever letter case, spacing and
\* order, with whatever empty tokens between commas.
C19_ResultDependsOnTermSet ==
    FullSearchAnswer =>
        \A q2 \in Queries :
            RequestedTerms(q2) = RequestedTerms(resp.arg[1])
            => Range(resp.body) = {r.id : r \in SearchRows(q2)}

\* C19 witness: the query "a,a" has been answered with a recipe, the one the
\* query "A" selects.
C19_Witness ==
    /\ FullSearchAnswer /\ resp.arg[1] = <<"a", ",", "a">>
    /\ resp.body # <<>>
    /\ Range(resp.body) = {r.id : r \in SearchRows(<<"A">>)}

\* the public recipes, and those created after / not before a recipe
PublicRecipes == {r \in recipes : r.is_public}
Newer(r) == {x \in PublicRecipes : x.created_at > r.created_at}
NotOlder(r) == {x \in PublicRecipes : x.created_at >= r.created_at}

\* C18: list with limit L in 1..200 and offset O >= 0 answers 200 with the
\* elements at positions O+1 .. O+L (counted from 1) of the public recipes in
\* descending order of creation time, fewer when the recipes run out: the
\* k-th element returned is a public recipe that has fewer than O+k public
\* recipes created after it and at least O+k created at or after its own
\* time, and no recipe is returned twice. With distinct creation times this
\* fixes the answer; limit=1, offset=1 over three public recipes is the
\* second most recent one.
C18_ListPagination ==
    (resp.op = "list" /\ resp.status # 0 /\ ValidPage(resp.arg[1], resp.arg[2])) =>
        LET L == resp.arg[1]
            O == resp.arg[2]
            n == Cardinality(PublicRecipes)
        IN  /\ resp.status = 200
            /\ Len(resp.body) = (IF n - O <= 0 THEN 0 ELSE IF n - O < L THEN n - O ELSE L)
            /\ \A k \in DOMAIN resp.body :
                 \E r \in PublicRecipes :
                    /\ r.id = resp.body[k]
                    /\ Cardinality(Newer(r)) < O + k
                    /\ O + k <= Cardinality(NotOlder(r))
            /\ \A j, k \in DOMAIN resp.body : resp.body[j] = resp.body[k] => j = k

\* C18 witness: three public recipes with distinct creation times, limit=1 and
\* offset=1, and the answer is the recipe with exactly one newer recipe.
C18_Witness ==
    /\ resp.op = "list" /\ resp.status = 200 /\ resp.arg = <<1, 1>>
    /\ Cardinality(PublicRecipes) = 3
    /\ \A a, b \in recipes : a.created_at = b.created_at => a = b
    /\ \E r \in recipes : resp.body = <<r.id>> /\ Cardinality(Newer(r)) = 1

\* id is the id of a stored recipe with is_public = true
IsPublicId(id) == \E r \in recipes : r.id = id /\ r.is_public

\* C17: list and ingredient search, called directly or through GET /recipes...,
\* return only recipes with is_public = true; detail answers 404 with no body
\* for a stored private recipe, the answer it gives for an id that is not
\* stored.
C17_PrivateNeverSurfaced ==
    /\ (resp.op \in {"list", "search", "http"} /\ resp.status = 200)
         => \A i \in DOMAIN resp.body : IsPublicId(resp.body[i])
    /\ (resp.op = "detail" /\ resp.status # 0 /\ resp.arg[1] >= 1
           /\ ~IsPublicId(resp.arg[1]))
         => (resp.status = 404 /\ resp.body = <<>>)
    /\ (resp.op = "detail" /\ resp.status = 200) => resp.body = resp.arg

\* C17 witness: a search has been answered with the public recipe while a
\* private recipe holds every requested ingredient as well.
C17_Witness ==
    /\ resp.op = "search" /\ resp.status = 200 /\ resp.body # <<>>
    /\ \E r \in recipes :
         /\ ~r.is_public
         /\ RequestedTerms(resp.arg[1]) \subseteq {Lower(n) : n \in NamesOf(r.id)}
         /\ r.id \notin Range(resp.body)

(***************************************************************************)
(* Properties of registration, login and the guard (checked under          *)
(* AuthSpec).                                                              *)
(***************************************************************************)
\* C1: when a user is stored whose email equals the submitted one after
\* lowercasing, register fails with Conflict (400), with no other outcome, and
\* exactly one user stays stored for that email.
C1_DuplicateRegisterConflict ==
    [][(Answered /\ resp'.op = "register" /\ resp'.status # 422
          /\ \E u \in users : Lower(u.email) = Lower(resp'.arg[1]))
       => (/\ resp'.status = 400
           /\ Cardinality({u \in users' : Lower(u.email) = Lower(resp'.arg[1])}) = 1)]_vars

\* a guarded request has just been answered
MeAnswered == Answered /\ resp'.op = "me"

\* C10: a token issued by a successful login of user U resolves through the
\* guard to U for as long as it has not expired and U exists and is active; a
\* token that has expired or whose signature does not verify makes the guard
\* fail with 401 and yields no user.
C10_TokenResolvesToIssuer ==
    [][MeAnswered =>
         LET t == resp'.arg[1]
         IN  /\ \A h \in tokens :
                  (h.tok = t /\ ~(t.exp < now)
                     /\ \E u \in users : u.id = h.owner /\ u.is_active)
                  => (resp'.status = 200 /\ resp'.user = h.owner)
             /\ (t.exp < now \/ t.sig # Sign(JWT_SECRET, t.sub, t.exp))
                  => (resp'.status = 401 /\ resp'.user = 0)]_vars

\* C10 witness: a token issued by a login is accepted at the last minute of its
\* life, and resolves to the user who logged in.
C10_Witness ==
    /\ resp.op = "me" /\ resp.status = 200
    /\ now = ACCESS_TOKEN_EXPIRE_MINUTES
    /\ \E h \in tokens : h.tok = resp.arg[1] /\ h.owner = resp.user
                           /\ h.tok.exp = now

\* the stored users a login with this username is about: those whose email is
\* the username trimmed and lowercased
LoginUsers(username) == {u \in users : u.email = Lower(Strip(username))}

\* the password is the one the user registered with
PasswordOf(u, password) == u.hashed_password = get_password_hash(password)

\* C12 as stated: a login for an email whose user is found but inactive is
\* answered 401 and issues no token; a login is answered 400 when the user is
\* absent or the password does not verify.
C12_LoginInactive401 ==
    [][\A n \in Usernames, p \in {Pw1, Pw2} :
         (Answered /\ login_for_access_token(n, p)) =>
            /\ (\E u \in LoginUsers(n) : ~u.is_active)
                 => (resp'.status = 401 /\ resp'.body = <<>> /\ tokens' = tokens)
            /\ (~\E u \in LoginUsers(n) : PasswordOf(u, p))
                 => resp'.status = 400]_vars

\* C12, amended: a login for an email whose user is found, whose password
\* verifies and who is inactive is answered 401 and issues no token; a login
\* is answered 400, with no token, when the user is absent or the password
\* does not verify, for an inactive user as for an active one.
C12_LoginVerifiedInactive401 ==
    [][\A n \in Usernames, p \in {Pw1, Pw2} :
         (Answered /\ login_for_access_token(n, p)) =>
            /\ (\E u \in LoginUsers(n) : PasswordOf(u, p) /\ ~u.is_active)
                 => (resp'.status = 401 /\ resp'.body = <<>> /\ tokens' = tokens)
            /\ (~\E u \in LoginUsers(n) : PasswordOf(u, p))
                 => (resp'.status = 400 /\ resp'.body = <<>> /\ tokens' = tokens)]_vars

\* C12 witness: the login of a deactivated user has been answered 401, no token
\* having ever been issued.
C12_Witness ==
    /\ resp.op = "login" /\ resp.status = 401
    /\ \E u \in LoginUsers(resp.arg[1]) : ~u.is_active
    /\ tokens = {}

(***************************************************************************)
(* Properties of favorites (Spec), notes (NoteSpec) and of concurrent      *)
(* requests (ConcSpec).                                                    *)
(***************************************************************************)
\* the request just answered is `op` by authenticated user resp'.user, and the
\* request answered before it was `prev` with status `st`, by the same user on
\* the same recipe
FavFollows(prev, st, op) ==
    /\ Answered
    /\ resp.op = prev /\ resp.status = st /\ resp.user # 0
    /\ resp'.op = op /\ resp'.user = resp.user /\ resp'.arg = resp.arg

\* C6: for an authenticated user u and an existing recipe r not yet favorited
\* by u, add_favorite answers 201; the add_favorite that follows answers 409;
\* the remove_favorite that follows answers 204 and the one after it 404.
C6_FavoriteTwiceRemoveTwice ==
    [][/\ (Answered /\ resp'.op = "add_favorite" /\ resp'.user # 0
             /\ GetRecipe(resp'.arg[1]) # {}
             /\ ~\E f \in favorites : f.user_id = resp'.user
                                        /\ f.recipe_id = resp'.arg[1])
          => resp'.status = 201
       /\ FavFollows("add_favorite", 201, "add_favorite") => resp'.status = 409
       /\ FavFollows("add_favorite", 409, "remove_favorite") => resp'.status = 204
       /\ FavFollows("remove_favorite", 204, "remove_favorite") => resp'.status = 404]_vars

\* C6 witness: user 1 favorited recipe 1, removed it, and the second removal
\* has been answered 404.
C6_Witness ==
    /\ resp.op = "remove_favorite" /\ resp.status = 404
    /\ resp.user = 1 /\ resp.arg = <<1>>
    /\ nextFavId = 2 /\ favorites = {}

\* C7: in every committed database state there is at most one favorite row per
\* (user_id, recipe_id) pair, whatever the interleaving of concurrent
\* add_favorite and remove_favorite requests.
C7_FavoritePairUnique ==
    \A f, g \in favorites :
        (f.user_id = g.user_id /\ f.recipe_id = g.recipe_id) => f = g

\* C7 witness: two add_favorite requests for the same pair both passed the
\* pre-check; one has committed and the other was rejected by the constraint.
C7_Witness ==
    /\ resp.op = "add_favorite" /\ resp.status = 500
    /\ \E f \in favorites : f.user_id = resp.user /\ f.recipe_id = resp.arg[1]

\* C8: in every committed database state every stored email is lowercase and
\* no two users share an email, whatever the interleaving of concurrent
\* register requests, emails differing only in letter case included.
C8_EmailLowercaseUnique ==
    /\ \A u \in users : u.email = Lower(u.email)
    /\ \A u, v \in users : u.email = v.email => u = v

\* C8 witness: a registration whose pre-check found no user was rejected at
\* flush, the email having been committed by a concurrent registration of the
\* same address in another letter case.
C8_Witness ==
    /\ resp.op = "register" /\ resp.status = 500 /\ resp.arg = <<<<"b">>>>
    /\ \E u \in users : u.email = <<"b">> /\ u.id # 1
    /\ \E w \in Workers : tx[w].pc = "idle"

\* C9: for a note n owned by user A and an authenticated user B other than A,
\* get_note, update_note and delete_note on n's id (with a valid payload)
\* answer 404, as they do for an id no note has, and leave n as it was.
C9_ForeignNoteNotFound ==
    [][(Answered /\ resp'.user # 0 /\ resp'.status # 422
          /\ resp'.op \in {"get_note", "update_note", "delete_note"})
       => /\ \A n \in notes :
               (n.id = resp'.arg[1] /\ n.user_id # resp'.user)
               => (resp'.status = 404 /\ n \in notes')
          /\ (~\E n \in notes : n.id = resp'.arg[1]) => resp'.status = 404]_vars

\* C9 witness: user B's update of a note that exists and belongs to user A has
\* been answered 404.
C9_Witness ==
    /\ resp.op = "update_note" /\ resp.status = 404 /\ resp.user # 0
    /\ \E n \in notes : n.id = resp.arg[1] /\ n.user_id # resp.user

(***************************************************************************)
(* Properties of the guard after an account is deactivated or deleted      *)
(* (checked under GuardSpec).                                              *)
(***************************************************************************)
\* the user a token was issued to is no longer stored, or is no longer active
Revoked(h) == ~\E u \in users : u.id = h.owner /\ u.is_active

\* this step is a guarded request (GET /auth/me, a favorites or a notes
\* operation) presenting the bearer token t
GuardedRequest(t) ==
    \/ read_current_user(t)
    \/ list_my_favorites(t)
    \/ add_favorite(t, GuardRecipe.id)
    \/ remove_favorite(t, GuardRecipe.id)
    \/ list_my_notes(t)
    \/ create_note(t, GuardRecipe.id, "x")
    \/ \E i \in GuardNoteIds :
         get_note(t, i) \/ update_note(t, i, "y") \/ delete_note(t, i)

\* C11: once the user a token was issued to has been deactivated or deleted,
\* every guarded request presenting that token, validly signed and unexpired
\* as it is, is answered 401, returns nothing and leaves favorites and notes
\* as they were.
C11_RevokedTokenRejected ==
    [][\A h \in tokens :
         (Answered /\ Revoked(h) /\ jwt_decode_ok(h.tok) /\ GuardedRequest(h.tok))
         => /\ resp'.status = 401 /\ resp'.user = 0 /\ resp'.body = <<>>
            /\ UNCHANGED <<favorites, notes>>]_vars

\* C11 witness: a user favorited a recipe and was then deactivated; the removal
\* requested with the token, the only revoked one, has been answered 401 and
\* the favorite is still there.
C11_Witness ==
    /\ resp.op = "remove_favorite" /\ resp.status = 401
    /\ \E h \in tokens :
         /\ Revoked(h) /\ jwt_decode_ok(h.tok)
         /\ \E u \in users : u.id = h.owner /\ ~u.is_active
         /\ \E f \in favorites : f.user_id = h.owner
         /\ \A g \in tokens \ {h} : ~Revoked(g)

(***************************************************************************)
(* Properties of the per-request session (checked under ConcSpec).         *)
(***************************************************************************)
\* the session of worker w holds changes that are not committed
SessionDirty(w) == tx[w].pc \in {"reg_flushed", "fav_flushed", "rem_selected"}

\* the committed rows with the changes of w's session applied
CommitOf(w) ==
    /\ users' = IF tx[w].pc = "reg_flushed" THEN users \cup {tx[w].row[1]} ELSE users
    /\ favorites' = IF tx[w].pc = "fav_flushed" THEN favorites \cup {tx[w].row[1]}
                    ELSE IF tx[w].pc = "rem_selected" THEN favorites \ {tx[w].row[1]}
                    ELSE favorites

\* C13: every request has its own session. A request answered with success
\* commits exactly the changes of its session, all in the step that answers
\* it; a request answered with an error (400, 401, 404, 409, 500) leaves the
\* committed rows as they were, its session's changes being dropped; in both
\* cases the session is closed, and no other step changes committed rows or
\* touches another request's session.
C13_CommitOrRollback ==
    [][/\ (Answered /\ resp'.status < 400) =>
            \E w \in Workers :
                /\ SessionDirty(w) /\ CommitOf(w)
                /\ tx' = [tx EXCEPT ![w] = Idle]
       /\ (Answered /\ resp'.status >= 400) =>
            /\ UNCHANGED <<users, favorites, notes>>
            /\ \/ tx' = tx /\ (\E w \in Workers : tx[w] = Idle)
               \/ \E w \in Workers : tx[w] # Idle /\ tx' = [tx EXCEPT ![w] = Idle]
       /\ ~Answered => UNCHANGED <<users, favorites, notes>>]_vars

\* C13 witness: an add_favorite request inserted its row, drew id 1 for it and
\* then failed; it has been answered 500, its session is closed and no
\* favorite is stored.
C13_Witness ==
    /\ resp.op = "add_favorite" /\ resp.status = 500
    /\ nextFavId = 2 /\ favorites = {}
    /\ \A w \in Workers : tx[w] = Idle

(***************************************************************************)
(* Properties of the lazily created engine (checked under EngineSpec).     *)
(***************************************************************************)
\* C14: whatever the interleaving of the threads that call get_db,
\* create_engine runs at most once, and exactly once as soon as a session has
\* been handed out, and all sessions ever handed out are bound to one engine.
C14_EngineCreatedOnce ==
    /\ engines <= 1
    /\ sessions # {} => engines = 1
    /\ \A a, b \in sessions : a.bind = b.bind

(***************************************************************************)
(* Properties of deletion (checked under CascadeSpec).                     *)
(***************************************************************************)
UserIds(us) == {u.id : u \in us}
RecipeIdsOf(rs) == {r.id : r \in rs}

\* C15: when a user is deleted, the favorites and the notes of that user are
\* deleted, and every recipe the user authored is still stored afterwards,
\* with author_id null, whether or not the deleting session had loaded the
\* user's recipes.
C15_UserDeleteKeepsRecipes ==
    [][\A u \in users : u.id \notin UserIds(users') =>
         /\ ~\E f \in favorites' : f.user_id = u.id
         /\ ~\E n \in notes' : n.user_id = u.id
         /\ \A r \in recipes : r.author_id = u.id =>
              \E k \in recipes' : k.id = r.id /\ k.author_id = 0]_vars

\* no favorite, note, ingredient or category link points at a missing row
NoDangling ==
    /\ \A f \in favorites : f.user_id \in UserIds(users) /\ f.recipe_id \in RecipeIdsOf(recipes)
    /\ \A n \in notes : n.user_id \in UserIds(users) /\ n.recipe_id \in RecipeIdsOf(recipes)
    /\ \A i \in DOMAIN ingredients : ingredients[i].recipe_id \in RecipeIdsOf(recipes)
    /\ \A l \in recipe_categories :
         l.recipe_id \in RecipeIdsOf(recipes) /\ l.category_id \in {c.id : c \in categories}

\* C16: when a recipe is deleted its ingredients, the favorites and notes
\* pointing at it and its category links go with it, the rows of the other
\* recipes stay, and so do the categories and the users (a recipe disappears
\* with a user only when that user, its author, is the row being deleted);
\* after every step no favorite, note, ingredient or category link points at
\* a recipe, user or category that is not stored.
C16_RecipeDeleteCascades ==
    [][/\ NoDangling'
       /\ \A r \in recipes : r.id \notin RecipeIdsOf(recipes') =>
            /\ categories' = categories
            /\ users' = users \/ users' = {u \in users : u.id # r.author_id}
            /\ \A f \in favorites : f.recipe_id \in RecipeIdsOf(recipes')
                                      /\ f.user_id \in UserIds(users') => f \in favorites'
            /\ \A n \in notes : n.recipe_id \in RecipeIdsOf(recipes')
                                  /\ n.user_id \in UserIds(users') => n \in notes'
            /\ \A l \in recipe_categories :
                 l.recipe_id \in RecipeIdsOf(recipes') => l \in recipe_categories']_vars

\* C16 witness: recipe 1 has been deleted after it was favorited and annotated:
\* its favorite, note, ingredient and category link are gone, recipe 2 keeps
\* its rows, and both users and the category are stored.
C16_Witness ==
    /\ RecipeIdsOf(recipes) = {2}
    /\ UserIds(users) = {1, 2} /\ categories = {[id |-> 1]}
    /\ nextFavId = 3 /\ Cardinality(favorites) = 1
    /\ nextNoteId = 3 /\ Cardinality(notes) = 1
    /\ Len(ingredients) = 1
    /\ recipe_categories = {[recipe_id |-> 2, category_id |-> 1]}

(***************************************************************************)
(* Properties of per-user isolation (checked under IsolationSpec).         *)
(***************************************************************************)
FavoritesOfOthers(fs, uid) == {f \in fs : f.user_id # uid}
NotesOfOthers(ns, uid) == {n \in ns : n.user_id # uid}

\* C20: a favorites or notes request answered for the acting user A leaves
\* the favorites of every other user and the notes of every other user, their
\* contents included, as they were; list-my-favorites returns the recipes of
\* A's favorites and list-my-notes A's notes, and no row of another user.
C20_PerUserIsolation ==
    [][(Answered /\ resp'.user # 0) =>
         /\ FavoritesOfOthers(favorites', resp'.user) = FavoritesOfOthers(favorites, resp'.user)
         /\ NotesOfOthers(notes', resp'.user) = NotesOfOthers(notes, resp'.user)
         /\ resp'.op = "list_favorites" =>
              Range(resp'.body) = {f.recipe_id : f \in {x \in favorites :
                                                          x.user_id = resp'.user}}
         /\ resp'.op = "list_notes" =>
              Range(resp'.body) = {n.id : n \in {x \in notes : x.user_id = resp'.user}}]_vars

\* C20 witness: both users had favorited the recipe and written a note; one of
\* them has removed its favorite and deleted its note, and the other's
\* favorite and note are still stored.
C20_Witness ==
    /\ resp.op = "remove_favorite" /\ resp.status = 204
    /\ nextFavId = 3 /\ nextNoteId = 3
    /\ \E f \in favorites : f.user_id # resp.user /\ f.recipe_id = resp.arg[1]
    /\ \E n \in notes : n.user_id # resp.user
    /\ ~\E n \in notes : n.user_id = resp.user

====
